---- MODULE Spec2Model ----
(***************************************************************************)
(* The Result utility of apps/server/src/shared/utils/result.ts, modelled  *)
(* as an interpreter of library calls.  A state holds the Result objects    *)
(* allocated by the expression being evaluated (heap), the number of other  *)
(* objects created so far (oids: Error objects and arrays have identity),   *)
(* the record of the last library call (last) and the R.tryAsync calls in    *)
(* flight (tasks).  When logical threads share Results, threads holds each   *)
(* thread's last call and born every Result as it was constructed.  One    *)
(* action per library entry point; every method is an operator from a context and its          *)
(* arguments to a new context and an outcome (a returned reference, a       *)
(* returned value, or a thrown value).                                      *)
(***************************************************************************)
EXTENDS Integers, Sequences, FiniteSets, TLC

VARIABLES heap, oids, last, chain, depth, mode, tasks, threads, born

vars == <<heap, oids, last, chain, depth, mode, tasks, threads, born>>

(* ------------------------------------------------------------------ *)
(* Bounds                                                              *)
(* ------------------------------------------------------------------ *)

\* Longest chain of arbitrary method calls on one constructed Result.
MaxDepth == 2

\* Longest chain r.andThen(f1)...andThen(fn).
MaxChain == 3

\* Longest array handed to R.combine / R.partition.
MaxLen == 3

\* Most R.tryAsync calls in flight at once.
MaxTasks == 2

(* ------------------------------------------------------------------ *)
(* JavaScript values                                                   *)
(* ------------------------------------------------------------------ *)

Val(kind, n, s) == [kind |-> kind, n |-> n, s |-> s, items |-> <<>>]

Null == Val("null", 0, "")

Undefined == Val("undefined", 0, "")

False == Val("boolean", 0, "")

True == Val("boolean", 1, "")

Num(i) == Val("number", i, "")

Str(x) == Val("string", 0, x)

\* An Error object: n is its identity, s its message.
ErrorObj(id, msg) == Val("Error", id, msg)

\* An array: n is its identity, items its elements.
ArrayVal(id, xs) == [kind |-> "array", n |-> id, s |-> "", items |-> xs]

JSBool(b) == IF b THEN True ELSE False

\* ToBoolean: the falsy values of the universe are null, undefined, false, 0, "".
Truthy(v) == v \notin {Null, Undefined, False, Num(0), Str("")}

\* typeof v
TypeOf(v) ==
  IF v.kind \in {"null", "Error", "array"} THEN "object" ELSE v.kind

\* The one Error object that exists before any library call: new Error("boom").
Boom == ErrorObj(1, "boom")

\* Object.create(null): an object with no toString and no valueOf, so that
\* converting it to a string throws a TypeError.
Unprintable == Val("object", 0, "")

\* The payloads a caller hands to ok(v) / err(e).
Payloads == {Null, Undefined, False, Num(0), Str(""), Num(1), Str("a"), Boom, Unprintable}

\* value instanceof Error
InstanceOfError(v) == v.kind = "Error"

Digit(d) ==
  CASE d = 0 -> "0" [] d = 1 -> "1" [] d = 2 -> "2" [] d = 3 -> "3" [] d = 4 -> "4"
    [] d = 5 -> "5" [] d = 6 -> "6" [] d = 7 -> "7" [] d = 8 -> "8" [] d = 9 -> "9"

RECURSIVE NatString(_)
NatString(n) == IF n < 10 THEN Digit(n) ELSE NatString(n \div 10) \o Digit(n % 10)

\* String(v) and `${v}`: the string form of v, or the fact that the conversion
\* throws a TypeError.  An array is its elements' string forms joined by ",",
\* null and undefined elements giving "".
RECURSIVE JSString(_), JoinFrom(_, _)
JSString(v) ==
  CASE v.kind = "null" -> [throws |-> FALSE, s |-> "null"]
    [] v.kind = "undefined" -> [throws |-> FALSE, s |-> "undefined"]
    [] v.kind = "boolean" -> [throws |-> FALSE, s |-> IF v.n = 1 THEN "true" ELSE "false"]
    [] v.kind = "number" -> [throws |-> FALSE, s |-> NatString(v.n)]
    [] v.kind = "string" -> [throws |-> FALSE, s |-> v.s]
    [] v.kind = "Error" -> [throws |-> FALSE,
                            s |-> IF v.s = "" THEN "Error" ELSE "Error: " \o v.s]
    [] v.kind = "array" -> JoinFrom(v.items, 1)
    [] v.kind = "object" -> [throws |-> TRUE, s |-> ""]

JoinFrom(items, i) ==
  IF i > Len(items)
  THEN [throws |-> FALSE, s |-> ""]
  ELSE LET head == IF items[i].kind \in {"null", "undefined"}
                   THEN [throws |-> FALSE, s |-> ""]
                   ELSE JSString(items[i])
           rest == JoinFrom(items, i + 1)
       IN  [throws |-> head.throws \/ rest.throws,
            s |-> IF i < Len(items) THEN head.s \o "," \o rest.s ELSE head.s]

\* The TypeError the runtime throws when a value has no string form.
NoStringForm == "Cannot convert object to primitive value"

(* ------------------------------------------------------------------ *)
(* Result objects, contexts, outcomes                                  *)
(* ------------------------------------------------------------------ *)

\* new Ok(value): success = true, error = false, value; no isError property.
OkObj(v) ==
  [cls |-> "Ok", success |-> True, isError |-> Undefined, error |-> False, value |-> v]

\* new Err(error): success = false, isError = true, error; no value property.
ErrObj(e) ==
  [cls |-> "Err", success |-> False, isError |-> True, error |-> e, value |-> Undefined]

\* Get with data as another name of value.
Get_dataAlias(o, name) ==
  CASE name = "success" -> o.success
    [] name = "isError" -> o.isError
    [] name = "error" -> o.error
    [] name \in {"value", "data"} -> o.value
    [] OTHER -> Undefined

\* result[name]: the properties of an Ok are success, error and value, those of
\* an Err success, isError and error; reading any other property gives undefined.
Get(o, name) ==
  CASE name = "success" -> o.success
    [] name = "isError" -> o.isError
    [] name = "error" -> o.error
    [] name = "value" -> o.value
    [] OTHER -> Undefined

\* An outcome of a call: t is "ref" (a Result object returned, by reference),
\* "val" (a value returned), "pair" ({ok: val, err: val2} returned) or
\* "throw" (val thrown).
RetRef(r) == [t |-> "ref", ref |-> r, val |-> Undefined, val2 |-> Undefined]

RetVal(v) == [t |-> "val", ref |-> 0, val |-> v, val2 |-> Undefined]

RetPair(a, b) == [t |-> "pair", ref |-> 0, val |-> a, val2 |-> b]

Thrown(v) == [t |-> "throw", ref |-> 0, val |-> v, val2 |-> Undefined]

Reply(ctx, out) == [ctx |-> ctx, out |-> out]

\* Callbacks handed to the combinators.  k is "value" (returns a value),
\* "result" (returns a Result) or "compose" (v => f(v).andThen(g)).
Fn(k, f, g) == [k |-> k, f |-> f, g |-> g]

NoFn == Fn("none", "", "")

ValueFns == {Fn("value", n, "") : n \in {"identity", "constNull", "typeOf"}}

ResultFnNames == {"okTypeOf", "errOf", "requireTruthy"}

ResultFns == {Fn("result", n, "") : n \in ResultFnNames}

ComposedFns == {Fn("compose", f, g) : f \in ResultFnNames, g \in ResultFnNames}

\* The context with one more callback invocation logged.
Logged(ctx, fn, v) ==
  [ctx EXCEPT !.calls = Append(@, [fn |-> fn, arg |-> v])]

(* ------------------------------------------------------------------ *)
(* Constructors                                                        *)
(* ------------------------------------------------------------------ *)

New_Ok(ctx, value) ==
  LET h == Append(ctx.heap, OkObj(value))
  IN  Reply([ctx EXCEPT !.heap = h], RetRef(Len(h)))

New_Err(ctx, error) ==
  LET h == Append(ctx.heap, ErrObj(error))
  IN  Reply([ctx EXCEPT !.heap = h], RetRef(Len(h)))

ok(ctx, value) == New_Ok(ctx, value)

err(ctx, error) == New_Err(ctx, error)

(* ------------------------------------------------------------------ *)
(* Callbacks (caller code)                                             *)
(* ------------------------------------------------------------------ *)

ValueFnResult(name, v) ==
  CASE name = "identity" -> v
    [] name = "constNull" -> Null
    [] name = "typeOf" -> Str(TypeOf(v))

ApplyValueFn(ctx, fn, v) ==
  Reply(Logged(ctx, fn, v), RetVal(ValueFnResult(fn.f, v)))

PrimResultFn(ctx, name, v) ==
  CASE name = "okTypeOf" -> ok(ctx, Str(TypeOf(v)))
    [] name = "errOf" -> err(ctx, v)
    [] name = "requireTruthy" ->
         IF Truthy(v) THEN ok(ctx, v) ELSE err(ctx, Str("falsy"))

\* A closure () => T handed to unwrapOrElse.
SupplierFns == {Fn("supplier", n, "") : n \in {"makeOne", "makeNull"}}

ApplySupplier(ctx, fn) ==
  Reply(Logged(ctx, fn, Undefined),
        RetVal(IF fn.f = "makeOne" THEN Num(1) ELSE Null))

RECURSIVE ApplyResultFn(_, _, _)

(* ------------------------------------------------------------------ *)
(* class Ok                                                            *)
(* ------------------------------------------------------------------ *)

Ok_isOk(ctx, this) == Reply(ctx, RetVal(True))

Ok_isErr(ctx, this) == Reply(ctx, RetVal(False))

\* Ok.unwrap reading the wrong field (error instead of value).
Ok_unwrap_error(ctx, this) == Reply(ctx, RetVal(ctx.heap[this].error))

\* Ok.unwrap moving the value out: const v = this.value; this.value = undefined;
\* return v.
Ok_unwrap_take(ctx, this) ==
  Reply([ctx EXCEPT !.heap[this].value = Undefined], RetVal(ctx.heap[this].value))

Ok_unwrap(ctx, this) == Reply(ctx, RetVal(ctx.heap[this].value))

\* Ok.map overwriting the receiver's value: this.value = fn(this.value); return this.
Ok_map_inPlace(ctx, this, fn) ==
  LET r == ApplyValueFn(ctx, fn, ctx.heap[this].value)
  IN  Reply([r.ctx EXCEPT !.heap[this].value = r.out.val], RetRef(this))

Ok_map(ctx, this, fn) ==
  LET r == ApplyValueFn(ctx, fn, ctx.heap[this].value)
  IN  New_Ok(r.ctx, r.out.val)

\* Ok.mapErr transforming the value.
Ok_mapErr_applies(ctx, this, fn) ==
  LET r == ApplyValueFn(ctx, fn, ctx.heap[this].value)
  IN  New_Ok(r.ctx, r.out.val)

Ok_mapErr(ctx, this, fn) == Reply(ctx, RetRef(this))

\* Ok.andThen invoking op and dropping what it returns.
Ok_andThen_self(ctx, this, op) ==
  Reply(ApplyResultFn(ctx, op, ctx.heap[this].value).ctx, RetRef(this))

\* Ok.andThen keeping the receiver when op fails.
Ok_andThen_swallow(ctx, this, op) ==
  LET r == ApplyResultFn(ctx, op, ctx.heap[this].value)
  IN  IF r.ctx.heap[r.out.ref].cls = "Err" THEN Reply(r.ctx, RetRef(this)) ELSE r

Ok_andThen(ctx, this, op) == ApplyResultFn(ctx, op, ctx.heap[this].value)

\* throw new Error("Called unwrapErr on Ok value")
Ok_unwrapErr(ctx, this) ==
  LET id == ctx.oids + 1
  IN  Reply([ctx EXCEPT !.oids = id],
            Thrown(ErrorObj(id, "Called unwrapErr on Ok value")))

Ok_unwrapOr(ctx, this, defaultValue) == Reply(ctx, RetVal(ctx.heap[this].value))

\* Ok.unwrapOrElse computing the default before looking at the receiver.
Ok_unwrapOrElse_eager(ctx, this, fn) ==
  Reply(ApplySupplier(ctx, fn).ctx, RetVal(ctx.heap[this].value))

Ok_unwrapOrElse(ctx, this, fn) == Reply(ctx, RetVal(ctx.heap[this].value))

\* Ok.and keeping the receiver.
Ok_and_self(ctx, this, res) == Reply(ctx, RetRef(this))

Ok_and(ctx, this, res) == Reply(ctx, RetRef(res))

Ok_or(ctx, this, res) == Reply(ctx, RetRef(this))

\* Ok.orElse invoking op with the value.
Ok_orElse_calls(ctx, this, op) ==
  Reply(ApplyResultFn(ctx, op, ctx.heap[this].value).ctx, RetRef(this))

Ok_orElse(ctx, this, op) == Reply(ctx, RetRef(this))

Ok_expect(ctx, this, msg) == Reply(ctx, RetVal(ctx.heap[this].value))

Ok_ok(ctx, this) == Reply(ctx, RetVal(ctx.heap[this].value))

\* Ok.err handing out the value.
Ok_err_value(ctx, this) == Reply(ctx, RetVal(ctx.heap[this].value))

Ok_err(ctx, this) == Reply(ctx, RetVal(Null))

\* *[Symbol.iterator]() { yield this.value }, drained: the values yielded.
Ok_iterator(ctx, this) == Reply(ctx, RetVal(ArrayVal(0, <<ctx.heap[this].value>>)))

\* `Ok(${this.value})`
Ok_toString(ctx, this) ==
  LET str == JSString(ctx.heap[this].value)
      id == ctx.oids + 1
  IN  IF str.throws
      THEN Reply([ctx EXCEPT !.oids = id], Thrown(ErrorObj(id, NoStringForm)))
      ELSE Reply(ctx, RetVal(Str("Ok(" \o str.s \o ")")))

(* ------------------------------------------------------------------ *)
(* class Err                                                           *)
(* ------------------------------------------------------------------ *)

Err_isOk(ctx, this) == Reply(ctx, RetVal(False))

\* Err.isErr answering like Ok.isErr.
Err_isErr_false(ctx, this) == Reply(ctx, RetVal(False))

Err_isErr(ctx, this) == Reply(ctx, RetVal(True))

\* Err.unwrap throwing a new Error in place of the contained error.
Err_unwrap_wrapped(ctx, this) ==
  LET id == ctx.oids + 1
  IN  Reply([ctx EXCEPT !.oids = id], Thrown(ErrorObj(id, "Called unwrap on Err value")))

\* throw this.error
Err_unwrap(ctx, this) == Reply(ctx, Thrown(ctx.heap[this].error))

\* Err.map transforming the error.
Err_map_applies(ctx, this, fn) ==
  LET r == ApplyValueFn(ctx, fn, ctx.heap[this].error)
  IN  New_Err(r.ctx, r.out.val)

Err_map(ctx, this, fn) == Reply(ctx, RetRef(this))

\* Err.mapErr wrapping the transformed error in a success.
Err_mapErr_asOk(ctx, this, fn) ==
  LET r == ApplyValueFn(ctx, fn, ctx.heap[this].error)
  IN  New_Ok(r.ctx, r.out.val)

Err_mapErr(ctx, this, fn) ==
  LET r == ApplyValueFn(ctx, fn, ctx.heap[this].error)
  IN  New_Err(r.ctx, r.out.val)

\* Err.andThen without the short-circuit: op is invoked with the error.
Err_andThen_calls(ctx, this, op) == ApplyResultFn(ctx, op, ctx.heap[this].error)

Err_andThen(ctx, this, op) == Reply(ctx, RetRef(this))

Err_unwrapErr(ctx, this) == Reply(ctx, RetVal(ctx.heap[this].error))

Err_unwrapOr(ctx, this, defaultValue) == Reply(ctx, RetVal(defaultValue))

Err_unwrapOrElse(ctx, this, fn) == ApplySupplier(ctx, fn)

\* Err.and raising the contained error.
Err_and_throws(ctx, this, res) == Reply(ctx, Thrown(ctx.heap[this].error))

Err_and(ctx, this, res) == Reply(ctx, RetRef(this))

Err_or(ctx, this, res) == Reply(ctx, RetRef(res))

Err_orElse(ctx, this, op) == ApplyResultFn(ctx, op, ctx.heap[this].error)

\* throw new Error(`${msg}: ${this.error}`): the template literal is evaluated
\* first, and throws a TypeError when this.error has no string form.
Err_expect(ctx, this, msg) ==
  LET str == JSString(ctx.heap[this].error)
      id == ctx.oids + 1
  IN  Reply([ctx EXCEPT !.oids = id],
            Thrown(ErrorObj(id, IF str.throws THEN NoStringForm
                                ELSE msg \o ": " \o str.s)))

\* Err.ok handing out the error.
Err_ok_error(ctx, this) == Reply(ctx, RetVal(ctx.heap[this].error))

Err_ok(ctx, this) == Reply(ctx, RetVal(Null))

Err_err(ctx, this) == Reply(ctx, RetVal(ctx.heap[this].error))

\* *[Symbol.iterator]() { }, drained: nothing is yielded.
Err_iterator(ctx, this) == Reply(ctx, RetVal(ArrayVal(0, <<>>)))

\* `Err(${this.error})`
Err_toString(ctx, this) ==
  LET str == JSString(ctx.heap[this].error)
      id == ctx.oids + 1
  IN  IF str.throws
      THEN Reply([ctx EXCEPT !.oids = id], Thrown(ErrorObj(id, NoStringForm)))
      ELSE Reply(ctx, RetVal(Str("Err(" \o str.s \o ")")))

(* ------------------------------------------------------------------ *)
(* Method dispatch on the receiver's class                             *)
(* ------------------------------------------------------------------ *)

IsOkObj(ctx, this) == ctx.heap[this].cls = "Ok"

Result_isOk(ctx, this) ==
  IF IsOkObj(ctx, this) THEN Ok_isOk(ctx, this) ELSE Err_isOk(ctx, this)

Result_isErr(ctx, this) ==
  IF IsOkObj(ctx, this) THEN Ok_isErr(ctx, this) ELSE Err_isErr(ctx, this)

Result_unwrap(ctx, this) ==
  IF IsOkObj(ctx, this) THEN Ok_unwrap(ctx, this) ELSE Err_unwrap(ctx, this)

Result_unwrapErr(ctx, this) ==
  IF IsOkObj(ctx, this) THEN Ok_unwrapErr(ctx, this) ELSE Err_unwrapErr(ctx, this)

Result_map(ctx, this, fn) ==
  IF IsOkObj(ctx, this) THEN Ok_map(ctx, this, fn) ELSE Err_map(ctx, this, fn)

Result_mapErr(ctx, this, fn) ==
  IF IsOkObj(ctx, this) THEN Ok_mapErr(ctx, this, fn) ELSE Err_mapErr(ctx, this, fn)

Result_andThen(ctx, this, op) ==
  IF IsOkObj(ctx, this) THEN Ok_andThen(ctx, this, op) ELSE Err_andThen(ctx, this, op)

Result_unwrapOr(ctx, this, defaultValue) ==
  IF IsOkObj(ctx, this)
  THEN Ok_unwrapOr(ctx, this, defaultValue) ELSE Err_unwrapOr(ctx, this, defaultValue)

Result_unwrapOrElse(ctx, this, fn) ==
  IF IsOkObj(ctx, this) THEN Ok_unwrapOrElse(ctx, this, fn) ELSE Err_unwrapOrElse(ctx, this, fn)

Result_and(ctx, this, res) ==
  IF IsOkObj(ctx, this) THEN Ok_and(ctx, this, res) ELSE Err_and(ctx, this, res)

Result_or(ctx, this, res) ==
  IF IsOkObj(ctx, this) THEN Ok_or(ctx, this, res) ELSE Err_or(ctx, this, res)

Result_orElse(ctx, this, op) ==
  IF IsOkObj(ctx, this) THEN Ok_orElse(ctx, this, op) ELSE Err_orElse(ctx, this, op)

Result_expect(ctx, this, msg) ==
  IF IsOkObj(ctx, this) THEN Ok_expect(ctx, this, msg) ELSE Err_expect(ctx, this, msg)

Result_ok(ctx, this) ==
  IF IsOkObj(ctx, this) THEN Ok_ok(ctx, this) ELSE Err_ok(ctx, this)

Result_err(ctx, this) ==
  IF IsOkObj(ctx, this) THEN Ok_err(ctx, this) ELSE Err_err(ctx, this)

Result_iterator(ctx, this) ==
  IF IsOkObj(ctx, this) THEN Ok_iterator(ctx, this) ELSE Err_iterator(ctx, this)

Result_toString(ctx, this) ==
  IF IsOkObj(ctx, this) THEN Ok_toString(ctx, this) ELSE Err_toString(ctx, this)

\* A Result-returning callback: a primitive one, or v => f(v).andThen(g).
ApplyResultFn(ctx, fn, v) ==
  IF fn.k = "compose"
  THEN LET a == PrimResultFn(Logged(ctx, fn, v), fn.f, v)
           c == Logged(a.ctx, Fn("result", fn.f, ""), v)
       IN  Result_andThen(c, a.out.ref, Fn("result", fn.g, ""))
  ELSE PrimResultFn(Logged(ctx, fn, v), fn.f, v)

(* ------------------------------------------------------------------ *)
(* Free functions and the R namespace                                  *)
(* ------------------------------------------------------------------ *)

isOk(ctx, result) == Result_isOk(ctx, result)

isErr(ctx, result) == Result_isErr(ctx, result)

\* A synchronous function handed to R.try (caller code): it returns v or throws v.
Thunks == {[throws |-> b, v |-> v] : b \in BOOLEAN, v \in Payloads}

ThunkFn(thunk) == Fn("thunk", IF thunk.throws THEN "throws" ELSE "returns", "")

\* The closure () => r.unwrap() over the Result r.
UnwrapThunk(r) == [unwrapOf |-> r]

UnwrapThunkFn == Fn("thunk", "unwrap", "")

RunThunk(ctx, thunk) ==
  IF "unwrapOf" \in DOMAIN thunk
  THEN Result_unwrap(Logged(ctx, UnwrapThunkFn, Undefined), thunk.unwrapOf)
  ELSE Reply(Logged(ctx, ThunkFn(thunk), thunk.v),
             IF thunk.throws THEN Thrown(thunk.v) ELSE RetVal(thunk.v))

\* new Error(String(error)): a new Error object, unless String(error) throws.
NewErrorOfString(ctx, error) ==
  LET str == JSString(error)
      id == ctx.oids + 1
      c == [ctx EXCEPT !.oids = id]
  IN  IF str.throws
      THEN Reply(c, Thrown(ErrorObj(id, NoStringForm)))
      ELSE Reply(c, RetVal(ErrorObj(id, str.s)))

\* catch (error) { return err(error instanceof Error ? error : new Error(String(error))) }
R_try_catch(ctx, error) ==
  IF InstanceOfError(error)
  THEN err(ctx, error)
  ELSE LET e == NewErrorOfString(ctx, error)
       IN  IF e.out.t = "throw" THEN e ELSE err(e.ctx, e.out.val)

\* try { return ok(fn()) } catch (error) { ... }
R_try(ctx, fn) ==
  LET r == RunThunk(ctx, fn)
  IN  IF r.out.t = "throw" THEN R_try_catch(r.ctx, r.out.val) ELSE ok(r.ctx, r.out.val)

\* An asynchronous operation handed to R.tryAsync (caller code).  It throws
\* before returning a promise ("sync"), or returns a promise that is already
\* settled ("early": an async function that returned or threw before its first
\* suspension), or one that settles later ("late": after a suspension); the
\* promise is fulfilled with v, or rejected with v when throws.
AsyncFns ==
  {[when |-> w, throws |-> FALSE, v |-> v] : w \in {"early", "late"}, v \in {Num(1), Null}}
    \cup {[when |-> w, throws |-> TRUE, v |-> v] :
             w \in {"sync", "early", "late"}, v \in {Boom, Str("a"), Unprintable}}

\* The promise an async function returns once it has returned (res is a
\* returned reference) or thrown.
SettledBy(task, res) ==
  [task EXCEPT !.promise = IF res.out.t = "ref" THEN "resolved" ELSE "rejected",
               !.ref = res.out.ref,
               !.thrown = IF res.out.t = "ref" THEN Undefined ELSE res.out.val]

\* catch (error) { return err(error instanceof Error ? error : new Error(String(error))) }
R_tryAsync_catch(ctx, error) ==
  IF InstanceOfError(error)
  THEN err(ctx, error)
  ELSE LET e == NewErrorOfString(ctx, error)
       IN  IF e.out.t = "throw" THEN e ELSE err(e.ctx, e.out.val)

\* R.tryAsync(fn) up to its first suspension: fn() is called; if it throws, the
\* catch block runs at once; otherwise the call is suspended at the await.
R_tryAsync(ctx, fn) ==
  LET task == [fn |-> fn, inner |-> "none", promise |-> "pending", ref |-> 0,
               thrown |-> Undefined]
  IN  IF fn.when = "sync"
      THEN LET res == R_tryAsync_catch(ctx, fn.v)
           IN  [ctx |-> res.ctx, task |-> SettledBy(task, res)]
      ELSE [ctx |-> ctx,
            task |-> [task EXCEPT !.inner = IF fn.when = "late" THEN "pending"
                                             ELSE IF fn.throws THEN "rejected"
                                             ELSE "fulfilled"]]

\* R.tryAsync resumed after the await: `return ok(value)` when the awaited
\* promise was fulfilled, the catch block when it was rejected.
R_tryAsync_resume(ctx, task) ==
  LET res == IF task.inner = "fulfilled"
             THEN ok(ctx, task.fn.v)
             ELSE R_tryAsync_catch(ctx, task.fn.v)
  IN  [ctx |-> res.ctx, task |-> SettledBy(task, res)]

\* new Error(message), message a string.
NewError(ctx, message) ==
  LET id == ctx.oids + 1
  IN  Reply([ctx EXCEPT !.oids = id], RetVal(ErrorObj(id, message)))

\* The optional error argument of fromNullable: left out, or a string.
NullableErrors == {Undefined, Str("missing"), Str("")}

\* fromNullable testing the value's truthiness: value ? ok(value) : err(...).
R_fromNullable_truthy(ctx, value, error) ==
  LET message == IF error = Undefined THEN "Value is null or undefined" ELSE error.s
  IN  IF Truthy(value)
      THEN ok(ctx, value)
      ELSE LET e == NewError(ctx, message)
           IN  err(e.ctx, e.out.val)

\* value != null ? ok(value) : err(new Error(error)), error defaulting to
\* "Value is null or undefined".
R_fromNullable(ctx, value, error) ==
  LET message == IF error = Undefined THEN "Value is null or undefined" ELSE error.s
  IN  IF value \notin {Null, Undefined}
      THEN ok(ctx, value)
      ELSE LET e == NewError(ctx, message)
           IN  err(e.ctx, e.out.val)

\* A predicate handed to fromPredicate (caller code).
Predicates == {Fn("predicate", n, "") : n \in {"isTruthy", "isString"}}

ApplyPredicate(ctx, fn, v) ==
  Reply(Logged(ctx, fn, v),
        RetVal(JSBool(IF fn.f = "isTruthy" THEN Truthy(v) ELSE TypeOf(v) = "string")))

\* A function value: val => "bad " + typeof val.
Describe == Val("function", 0, "describe")

\* The optional error argument of fromPredicate: left out, a string, or a
\* function of the value.
PredicateErrors == {Undefined, Str("bad"), Str(""), Describe}

ApplyDescribe(ctx, v) ==
  Reply(Logged(ctx, Fn("message", "describe", ""), v), RetVal(Str("bad " \o TypeOf(v))))

\* fromPredicate computing the message before it calls the predicate.
R_fromPredicate_eager(ctx, value, predicate, error) ==
  LET given == IF error = Undefined THEN Str("Predicate failed") ELSE error
      m == IF TypeOf(given) = "function"
           THEN ApplyDescribe(ctx, value)
           ELSE Reply(ctx, RetVal(given))
      p == ApplyPredicate(m.ctx, predicate, value)
  IN  IF Truthy(p.out.val)
      THEN ok(p.ctx, value)
      ELSE LET e == NewError(p.ctx, m.out.val.s)
           IN  err(e.ctx, e.out.val)

\* predicate(value) ? ok(value)
\*                  : err(new Error(typeof error === "function" ? error(value) : error)),
\* error defaulting to "Predicate failed".
R_fromPredicate(ctx, value, predicate, error) ==
  LET given == IF error = Undefined THEN Str("Predicate failed") ELSE error
      p == ApplyPredicate(ctx, predicate, value)
  IN  IF Truthy(p.out.val)
      THEN ok(p.ctx, value)
      ELSE LET m == IF TypeOf(given) = "function"
                    THEN ApplyDescribe(p.ctx, value)
                    ELSE Reply(p.ctx, RetVal(given))
               e == NewError(m.ctx, m.out.val.s)
           IN  err(e.ctx, e.out.val)

\* The context with one more inspection (isOk() / isErr()) by an aggregate logged.
Seen(ctx, result) == [ctx EXCEPT !.seen = Append(@, result)]

Push(array, x) == [array EXCEPT !.items = Append(@, x)]

\* A fresh empty array: const a = [].
NewArray(ctx) ==
  LET id == ctx.oids + 1
  IN  [ctx |-> [ctx EXCEPT !.oids = id], array |-> ArrayVal(id, <<>>)]

\* The loop of combine without the early return: failures are skipped.
RECURSIVE combineLoop_skip(_, _, _, _)
combineLoop_skip(ctx, results, i, values) ==
  IF i > Len(results)
  THEN ok(ctx, values)
  ELSE LET result == results[i]
           c == Result_isErr(Seen(ctx, result), result)
       IN  IF Truthy(c.out.val)
           THEN combineLoop_skip(c.ctx, results, i + 1, values)
           ELSE combineLoop_skip(c.ctx, results, i + 1,
                                 Push(values, c.ctx.heap[result].value))

\* for (const result of results) { if (result.isErr()) return result;
\*                                 values.push(result.value) }  return ok(values)
RECURSIVE combineLoop(_, _, _, _)
combineLoop(ctx, results, i, values) ==
  IF i > Len(results)
  THEN ok(ctx, values)
  ELSE LET result == results[i]
           c == Result_isErr(Seen(ctx, result), result)
       IN  IF Truthy(c.out.val)
           THEN Reply(c.ctx, RetRef(result))
           ELSE combineLoop(c.ctx, results, i + 1, Push(values, c.ctx.heap[result].value))

R_combine(ctx, results) ==
  LET a == NewArray(ctx)
  IN  combineLoop(a.ctx, results, 1, a.array)

\* The loop of partition keeping the first error only.
RECURSIVE partitionLoop_firstErr(_, _, _, _, _)
partitionLoop_firstErr(ctx, results, i, okValues, errValues) ==
  IF i > Len(results)
  THEN Reply(ctx, RetPair(okValues, errValues))
  ELSE LET result == results[i]
           c == Result_isOk(Seen(ctx, result), result)
       IN  IF Truthy(c.out.val)
           THEN partitionLoop_firstErr(c.ctx, results, i + 1,
                                       Push(okValues, c.ctx.heap[result].value), errValues)
           ELSE partitionLoop_firstErr(c.ctx, results, i + 1, okValues,
                                       IF errValues.items = <<>>
                                       THEN Push(errValues, c.ctx.heap[result].error)
                                       ELSE errValues)

\* The loop of partition putting each error in front: errValues.unshift(...).
RECURSIVE partitionLoop_unshift(_, _, _, _, _)
partitionLoop_unshift(ctx, results, i, okValues, errValues) ==
  IF i > Len(results)
  THEN Reply(ctx, RetPair(okValues, errValues))
  ELSE LET result == results[i]
           c == Result_isOk(Seen(ctx, result), result)
       IN  IF Truthy(c.out.val)
           THEN partitionLoop_unshift(c.ctx, results, i + 1,
                                      Push(okValues, c.ctx.heap[result].value), errValues)
           ELSE partitionLoop_unshift(c.ctx, results, i + 1, okValues,
                                      [errValues EXCEPT
                                         !.items = <<c.ctx.heap[result].error>> \o @])

\* for (const result of results) { if (result.isOk()) okValues.push(result.value)
\*                                 else errValues.push(result.error) }
RECURSIVE partitionLoop(_, _, _, _, _)
partitionLoop(ctx, results, i, okValues, errValues) ==
  IF i > Len(results)
  THEN Reply(ctx, RetPair(okValues, errValues))
  ELSE LET result == results[i]
           c == Result_isOk(Seen(ctx, result), result)
       IN  IF Truthy(c.out.val)
           THEN partitionLoop(c.ctx, results, i + 1,
                              Push(okValues, c.ctx.heap[result].value), errValues)
           ELSE partitionLoop(c.ctx, results, i + 1,
                              okValues, Push(errValues, c.ctx.heap[result].error))

R_partition(ctx, results) ==
  LET a == NewArray(ctx)
      b == NewArray(a.ctx)
  IN  partitionLoop(b.ctx, results, 1, a.array, b.array)

(* ------------------------------------------------------------------ *)
(* State machine                                                       *)
(* ------------------------------------------------------------------ *)

NoCall ==
  [op |-> "none", recv |-> 0, fn |-> NoFn, arg |-> Undefined, arr |-> <<>>,
   out |-> RetVal(Undefined), calls |-> <<>>, seen |-> <<>>, base |-> 0,
   pre |-> <<>>, arg2 |-> Undefined]

EmptyCtx == [heap |-> <<>>, oids |-> 1, calls |-> <<>>, seen |-> <<>>]

CtxNow == [heap |-> heap, oids |-> oids, calls |-> <<>>, seen |-> <<>>]

Init ==
  /\ heap = <<>>
  /\ oids = 1
  /\ last = NoCall
  /\ chain = <<>>
  /\ depth = 0
  /\ mode = "idle"
  /\ tasks = <<>>
  /\ threads = <<>>
  /\ born = <<>>

\* The state after a call: the context's heap and the call's record.  pre is
\* the heap when the call was entered (its arguments evaluated), base the number
\* of Result objects that existed before the call's expression was evaluated.
\* arg2 is the call's optional last argument (undefined when left out).
RecordedWith(arg2, pre, op, recv, fn, arg, arr, res) ==
  /\ heap' = res.ctx.heap
  /\ oids' = res.ctx.oids
  /\ last' = [op |-> op, recv |-> recv, fn |-> fn, arg |-> arg, arr |-> arr,
              out |-> res.out, calls |-> res.ctx.calls, seen |-> res.ctx.seen,
              base |-> Len(heap), pre |-> pre, arg2 |-> arg2]
  /\ tasks' = tasks
  /\ UNCHANGED <<threads, born>>

RecordedFrom(pre, op, recv, fn, arg, arr, res) ==
  RecordedWith(Undefined, pre, op, recv, fn, arg, arr, res)

Recorded(op, recv, fn, arg, arr, res) == RecordedFrom(heap, op, recv, fn, arg, arr, res)

\* A new expression starts: ok(v) or err(e).
Construct(variant, v) ==
  /\ mode = "idle"
  /\ Recorded(variant, 0, NoFn, v, <<>>,
              IF variant = "ok" THEN ok(EmptyCtx, v) ELSE err(EmptyCtx, v))
  /\ chain' = <<>>
  /\ depth' = 0
  /\ mode' = "chain"

\* The expression is a call of one of R's factories.
Made ==
  /\ chain' = <<>>
  /\ depth' = 0
  /\ mode' = "made"

\* R.try(fn)
CallTry(thunk) ==
  /\ mode = "idle"
  /\ Recorded("try", 0, ThunkFn(thunk), thunk.v, <<>>, R_try(EmptyCtx, thunk))
  /\ Made

\* R.fromNullable(value) / R.fromNullable(value, error)
CallFromNullable(value, error) ==
  /\ mode = "idle"
  /\ RecordedWith(error, heap, "fromNullable", 0, NoFn, value, <<>>,
                  R_fromNullable(EmptyCtx, value, error))
  /\ Made

\* R.fromPredicate(value, predicate) / R.fromPredicate(value, predicate, error)
CallFromPredicate(value, predicate, error) ==
  /\ mode = "idle"
  /\ RecordedWith(error, heap, "fromPredicate", 0, predicate, value, <<>>,
                  R_fromPredicate(EmptyCtx, value, predicate, error))
  /\ Made

\* The receiver of a chained method call is the Result the last call returned.
CanChain == mode = "chain" /\ last.out.t = "ref" /\ depth < MaxDepth

Chained ==
  /\ chain' = <<>>
  /\ depth' = depth + 1
  /\ mode' = "chain"

CallIsOk ==
  /\ CanChain
  /\ Recorded("isOk", last.out.ref, NoFn, Undefined, <<>>, isOk(CtxNow, last.out.ref))
  /\ Chained

CallIsErr ==
  /\ CanChain
  /\ Recorded("isErr", last.out.ref, NoFn, Undefined, <<>>, isErr(CtxNow, last.out.ref))
  /\ Chained

CallUnwrap ==
  /\ CanChain
  /\ Recorded("unwrap", last.out.ref, NoFn, Undefined, <<>>,
              Result_unwrap(CtxNow, last.out.ref))
  /\ Chained

CallUnwrapErr ==
  /\ CanChain
  /\ Recorded("unwrapErr", last.out.ref, NoFn, Undefined, <<>>,
              Result_unwrapErr(CtxNow, last.out.ref))
  /\ Chained

CallMap(fn) ==
  /\ CanChain
  /\ Recorded("map", last.out.ref, fn, Undefined, <<>>,
              Result_map(CtxNow, last.out.ref, fn))
  /\ Chained

CallMapErr(fn) ==
  /\ CanChain
  /\ Recorded("mapErr", last.out.ref, fn, Undefined, <<>>,
              Result_mapErr(CtxNow, last.out.ref, fn))
  /\ Chained

\* The defaults handed to unwrapOr.
Defaults == {Null, Str("d")}

CallUnwrapOr(defaultValue) ==
  /\ CanChain
  /\ Recorded("unwrapOr", last.out.ref, NoFn, defaultValue, <<>>,
              Result_unwrapOr(CtxNow, last.out.ref, defaultValue))
  /\ Chained

CallUnwrapOrElse(fn) ==
  /\ CanChain
  /\ Recorded("unwrapOrElse", last.out.ref, fn, Undefined, <<>>,
              Result_unwrapOrElse(CtxNow, last.out.ref, fn))
  /\ Chained

\* The Result x written as the argument of r.and(x) / r.or(x).
Operands ==
  {[variant |-> "ok", v |-> Num(1)], [variant |-> "ok", v |-> Null],
   [variant |-> "err", v |-> Str("a")], [variant |-> "err", v |-> Boom]}

Operand(x) == IF x.variant = "ok" THEN ok(CtxNow, x.v) ELSE err(CtxNow, x.v)

\* r.and(x): x is evaluated, then the method is entered; arr holds x.
CallAnd(x) ==
  /\ CanChain
  /\ RecordedFrom(Operand(x).ctx.heap, "and", last.out.ref, NoFn, Undefined,
                  <<Operand(x).out.ref>>,
                  Result_and(Operand(x).ctx, last.out.ref, Operand(x).out.ref))
  /\ Chained

\* r.or(x)
CallOr(x) ==
  /\ CanChain
  /\ RecordedFrom(Operand(x).ctx.heap, "or", last.out.ref, NoFn, Undefined,
                  <<Operand(x).out.ref>>,
                  Result_or(Operand(x).ctx, last.out.ref, Operand(x).out.ref))
  /\ Chained

CallOrElse(op) ==
  /\ CanChain
  /\ Recorded("orElse", last.out.ref, op, Undefined, <<>>,
              Result_orElse(CtxNow, last.out.ref, op))
  /\ Chained

\* The messages handed to expect.
Messages == {"ctx", ""}

CallExpect(msg) ==
  /\ CanChain
  /\ Recorded("expect", last.out.ref, NoFn, Str(msg), <<>>,
              Result_expect(CtxNow, last.out.ref, msg))
  /\ Chained

\* The properties a caller reads.
Fields == {"success", "data", "value", "error"}

\* r[name], as in `if (result.success) use(result.data) else use(result.error)`
CallGet(name) ==
  /\ CanChain
  /\ Recorded("get", last.out.ref, NoFn, Str(name), <<>>,
              Reply(CtxNow, RetVal(Get(heap[last.out.ref], name))))
  /\ Chained

\* R.try(() => r.unwrap())
CallTryUnwrap ==
  /\ CanChain
  /\ Recorded("tryUnwrap", last.out.ref, UnwrapThunkFn, Undefined, <<>>,
              R_try(CtxNow, UnwrapThunk(last.out.ref)))
  /\ Chained

\* r.ok()
CallOk ==
  /\ CanChain
  /\ Recorded("ok()", last.out.ref, NoFn, Undefined, <<>>, Result_ok(CtxNow, last.out.ref))
  /\ Chained

\* r.err()
CallErr ==
  /\ CanChain
  /\ Recorded("err()", last.out.ref, NoFn, Undefined, <<>>, Result_err(CtxNow, last.out.ref))
  /\ Chained

\* [...r]
CallIterator ==
  /\ CanChain
  /\ Recorded("iterator", last.out.ref, NoFn, Undefined, <<>>,
              Result_iterator(CtxNow, last.out.ref))
  /\ Chained

\* r.toString()
CallToString ==
  /\ CanChain
  /\ Recorded("toString", last.out.ref, NoFn, Undefined, <<>>,
              Result_toString(CtxNow, last.out.ref))
  /\ Chained

\* r.andThen(op).  A chain made of andThen calls only may be MaxChain long, and
\* its steps are kept in chain.
InThenChain == Len(chain) = depth

CallAndThen(op) ==
  /\ mode = "chain"
  /\ last.out.t = "ref"
  /\ \/ depth < MaxDepth
     \/ InThenChain /\ depth < MaxChain
  /\ op.k = "compose" => depth = 0
  /\ LET res == Result_andThen(CtxNow, last.out.ref, op)
     IN  /\ Recorded("andThen", last.out.ref, op, Undefined, <<>>, res)
         /\ chain' = IF InThenChain
                     THEN Append(chain, [fn |-> op, recv |-> last.out.ref,
                                         out |-> res.out, calls |-> res.ctx.calls,
                                         obj |-> res.ctx.heap[res.out.ref]])
                     ELSE chain
  /\ depth' = depth + 1
  /\ mode' = "chain"

\* The array literal [ok(v1), err(e2), ...] handed to an aggregate.
Elems == {[variant |-> k, v |-> v] : k \in {"ok", "err"}, v \in Payloads}

ArraySpecs == UNION {[1..n -> Elems] : n \in 0..MaxLen}

RECURSIVE BuildArray(_, _, _)
BuildArray(ctx, specs, i) ==
  IF i > Len(specs)
  THEN ctx
  ELSE BuildArray((IF specs[i].variant = "ok"
                   THEN ok(ctx, specs[i].v) ELSE err(ctx, specs[i].v)).ctx,
                  specs, i + 1)

Aggregated ==
  /\ chain' = <<>>
  /\ depth' = 0
  /\ mode' = "aggregate"

CallCombine(specs) ==
  /\ mode = "idle"
  /\ RecordedFrom(BuildArray(EmptyCtx, specs, 1).heap,
                  "combine", 0, NoFn, Undefined, [i \in 1..Len(specs) |-> i],
                  R_combine(BuildArray(EmptyCtx, specs, 1), [i \in 1..Len(specs) |-> i]))
  /\ Aggregated

CallPartition(specs) ==
  /\ mode = "idle"
  /\ RecordedFrom(BuildArray(EmptyCtx, specs, 1).heap,
                  "partition", 0, NoFn, Undefined, [i \in 1..Len(specs) |-> i],
                  R_partition(BuildArray(EmptyCtx, specs, 1), [i \in 1..Len(specs) |-> i]))
  /\ Aggregated

\* The expression statement ends and its Results are dropped.
Discard ==
  /\ mode # "idle"
  /\ heap' = <<>>
  /\ oids' = 1
  /\ last' = NoCall
  /\ chain' = <<>>
  /\ depth' = 0
  /\ mode' = "idle"
  /\ tasks' = <<>>
  /\ UNCHANGED <<threads, born>>

\* The state after a step of an R.tryAsync call.
AsyncStep(ctx, newTasks) ==
  /\ heap' = ctx.heap
  /\ oids' = ctx.oids
  /\ tasks' = newTasks
  /\ last' = [NoCall EXCEPT !.op = "tryAsync"]
  /\ chain' = <<>>
  /\ depth' = 0
  /\ mode' = "async"
  /\ UNCHANGED <<threads, born>>

\* R.tryAsync(fn) is called.
CallTryAsync(fn) ==
  /\ mode \in {"idle", "async"}
  /\ Len(tasks) < MaxTasks
  /\ LET r == R_tryAsync(CtxNow, fn)
     IN  AsyncStep(r.ctx, Append(tasks, r.task))

\* The wrapped operation of call i settles (caller code).
SettleWrapped(i) ==
  /\ tasks[i].inner = "pending"
  /\ AsyncStep(CtxNow, [tasks EXCEPT ![i].inner = IF tasks[i].fn.throws
                                                   THEN "rejected" ELSE "fulfilled"])

\* Calls resuming in the order they were made: call i waits for the calls made
\* before it.
ResumeTryAsync_inOrder(i) ==
  /\ tasks[i].promise = "pending"
  /\ tasks[i].inner \in {"fulfilled", "rejected"}
  /\ \A j \in 1..(i - 1) : tasks[j].promise # "pending"
  /\ LET r == R_tryAsync_resume(CtxNow, tasks[i])
     IN  AsyncStep(r.ctx, [tasks EXCEPT ![i] = r.task])

\* Call i resumes from its await.
ResumeTryAsync(i) ==
  /\ tasks[i].promise = "pending"
  /\ tasks[i].inner \in {"fulfilled", "rejected"}
  /\ LET r == R_tryAsync_resume(CtxNow, tasks[i])
     IN  AsyncStep(r.ctx, [tasks EXCEPT ![i] = r.task])

Next ==
  \/ \E variant \in {"ok", "err"}, v \in Payloads : Construct(variant, v)
  \/ mode = "idle" /\ \E thunk \in Thunks : CallTry(thunk)
  \/ CallIsOk
  \/ CallIsErr
  \/ CallUnwrap
  \/ CallUnwrapErr
  \/ \E fn \in ValueFns : CallMap(fn)
  \/ \E fn \in ValueFns : CallMapErr(fn)
  \/ \E op \in ResultFns \cup ComposedFns : CallAndThen(op)
  \/ \E defaultValue \in Defaults : CallUnwrapOr(defaultValue)
  \/ \E fn \in SupplierFns : CallUnwrapOrElse(fn)
  \/ \E x \in Operands : CallAnd(x)
  \/ \E x \in Operands : CallOr(x)
  \/ \E op \in ResultFns : CallOrElse(op)
  \/ \E msg \in Messages : CallExpect(msg)
  \/ \E name \in Fields : CallGet(name)
  \/ CallTryUnwrap
  \/ CallOk
  \/ CallErr
  \/ CallIterator
  \/ CallToString
  \/ mode = "idle" /\ \E value \in Payloads, error \in NullableErrors :
                       CallFromNullable(value, error)
  \/ mode = "idle" /\ \E value \in Payloads, predicate \in Predicates,
                          error \in PredicateErrors :
                       CallFromPredicate(value, predicate, error)
  \/ mode = "idle" /\ \E specs \in ArraySpecs : CallCombine(specs)
  \/ mode = "idle" /\ \E specs \in ArraySpecs : CallPartition(specs)
  \/ Discard
  \/ mode \in {"idle", "async"} /\ \E fn \in AsyncFns : CallTryAsync(fn)
  \/ \E i \in DOMAIN tasks : SettleWrapped(i)
  \/ \E i \in DOMAIN tasks : ResumeTryAsync(i)

Spec == Init /\ [][Next]_vars

(* ------------------------------------------------------------------ *)
(* Logical threads sharing Results                                     *)
(* ------------------------------------------------------------------ *)

\* The logical threads (async tasks, request handlers) that hold the Results;
\* each makes one call.
Threads == {"a", "b", "c"}

\* The Results the threads share at the start.
SharedPool == {OkObj(Num(1)), OkObj(Null), ErrObj(Boom)}

\* The operations a thread performs: inspection, unwrapping, transformation,
\* aggregation.
SharedOps == {"isOk", "unwrap", "map", "and", "andThen", "combine"}

\* The calls a thread can make on the Results of h, those that other threads'
\* calls returned included: x, one of the Results shared from the start, is the
\* second Result of and and combine.
SharedCalls(h) ==
  {[op |-> o, recv |-> r, x |-> x] :
     o \in {"and", "combine"}, r \in DOMAIN h, x \in 1..2}
    \cup {[op |-> o, recv |-> r, x |-> r] :
            o \in SharedOps \ {"and", "combine"}, r \in DOMAIN h}

\* One call, run to completion: a method body is synchronous, so nothing
\* interleaves inside it.
Perform(ctx, c) ==
  CASE c.op = "isOk" -> Result_isOk(ctx, c.recv)
    [] c.op = "unwrap" -> Result_unwrap(ctx, c.recv)
    [] c.op = "map" -> Result_map(ctx, c.recv, Fn("value", "typeOf", ""))
    [] c.op = "and" -> Result_and(ctx, c.recv, c.x)
    [] c.op = "andThen" -> Result_andThen(ctx, c.recv, Fn("result", "errOf", ""))
    [] c.op = "combine" -> R_combine(ctx, <<c.recv, c.x>>)

\* A thread that has made no call yet.
NoWork == [call |-> [op |-> "none", recv |-> 0, x |-> 0], base |-> 0, ids |-> 0,
           out |-> RetVal(Undefined)]

SharedInit ==
  /\ heap \in [1..2 -> SharedPool]
  /\ born = heap
  /\ oids = 1
  /\ threads = [t \in Threads |-> NoWork]
  /\ last = NoCall
  /\ chain = <<>>
  /\ depth = 0
  /\ mode = "shared"
  /\ tasks = <<>>

\* Thread t makes call c on the shared Results; base and ids are the numbers of
\* Results and of identities at that moment.
ThreadCall(t, c) ==
  /\ mode = "shared"
  /\ threads[t] = NoWork
  /\ LET res == Perform(CtxNow, c)
     IN  /\ heap' = res.ctx.heap
         /\ oids' = res.ctx.oids
         /\ born' = born \o SubSeq(res.ctx.heap, Len(heap) + 1, Len(res.ctx.heap))
         /\ threads' = [threads EXCEPT ![t] = [call |-> c, base |-> Len(heap),
                                                ids |-> oids, out |-> res.out]]
  /\ UNCHANGED <<last, chain, depth, mode, tasks>>

SharedNext == \E t \in Threads : \E c \in SharedCalls(heap) : ThreadCall(t, c)

SharedSpec == SharedInit /\ [][SharedNext]_vars

(* ------------------------------------------------------------------ *)
(* The server's error interceptor                                      *)
(* ------------------------------------------------------------------ *)

\* The words a message is made of: the five the interceptor looks for, and
\* another one.
Words == {"Validation error", "database", "SQL", "network", "fetch", "oops"}

\* Longest message, in words.
MaxWords == 2

\* A message is a sequence of words.
ErrorMessages == UNION {[1..n -> Words] : n \in 0..MaxWords}

\* message.includes(word)
Includes(message, word) == \E i \in DOMAIN message : message[i] = word

\* The classes of http.error.ts, plain Error, and a thrown value that is not an
\* Error ("string").
HttpErrorClasses ==
  {"ValidationError", "NotFoundError", "UnauthorizedError", "ForbiddenError",
   "ConflictError"}

ThrownErrors ==
  {[class |-> c, message |-> m] :
     c \in HttpErrorClasses \cup {"Error", "string"}, m \in ErrorMessages}

\* error instanceof Error
IsError(error) == error.class # "string"

\* A string handed to a Response helper.
Text(message) == [class |-> "string", message |-> message]

\* The characters of a string value.
StringOf(text) == text.message

\* The statusCode parameter left out.
Omitted == "omitted"

\* Response.err(error, statusCode = StatusCodes.INTERNAL_SERVER_ERROR); none of
\* the values handed to it has a code property.
Response_err(error, statusCode) ==
  [response |-> [success |-> FALSE,
                 error |-> IF IsError(error) THEN error.message ELSE StringOf(error)],
   statusCode |-> IF statusCode = Omitted THEN "INTERNAL_SERVER_ERROR" ELSE statusCode]

Response_badRequest(error) == Response_err(error, "BAD_REQUEST")

Response_unauthorized(error) == Response_err(error, "UNAUTHORIZED")

Response_forbidden(error) == Response_err(error, "FORBIDDEN")

Response_notFound(error) == Response_err(error, "NOT_FOUND")

Response_conflict(error) == Response_err(error, "CONFLICT")

Response_unprocessableEntity(error) == Response_err(error, "UNPROCESSABLE_ENTITY")

\* What the handler leaves: status is set.status, body the object it returns.
Handled(status, body) == [status |-> status, body |-> body]

\* The onError handler: the first branch whose test holds sets set.status and
\* returns.
errorInterceptor(error) ==
  CASE error.class = "ValidationError" ->
         Handled("UNPROCESSABLE_ENTITY", Response_unprocessableEntity(Text(error.message)))
    [] error.class = "NotFoundError" ->
         Handled("NOT_FOUND", Response_notFound(Text(error.message)))
    [] error.class = "UnauthorizedError" ->
         Handled("UNAUTHORIZED", Response_unauthorized(Text(error.message)))
    [] error.class = "ForbiddenError" ->
         Handled("FORBIDDEN", Response_forbidden(Text(error.message)))
    [] error.class = "ConflictError" ->
         Handled("CONFLICT", Response_conflict(Text(error.message)))
    [] OTHER ->
         IF IsError(error) /\ Includes(error.message, "Validation error")
         THEN Handled("BAD_REQUEST", Response_badRequest(Text(<<"Invalid request data">>)))
         ELSE IF IsError(error)
                 /\ (Includes(error.message, "database") \/ Includes(error.message, "SQL"))
         THEN Handled("INTERNAL_SERVER_ERROR",
                      Response_err(Text(<<"Database error occurred">>), Omitted))
         ELSE IF IsError(error)
                 /\ (Includes(error.message, "network") \/ Includes(error.message, "fetch"))
         THEN Handled("BAD_GATEWAY",
                      Response_err(Text(<<"Network error occurred">>), Omitted))
         ELSE Handled("INTERNAL_SERVER_ERROR",
                      Response_err(Text(<<"An unexpected error occurred">>), Omitted))

\* A request: nothing thrown yet.
NoRequest ==
  [op |-> "request", error |-> Text(<<>>), status |-> "unset",
   body |-> Response_err(Text(<<>>), Omitted), handled |-> FALSE]

HttpInit ==
  /\ last = NoRequest
  /\ mode = "http"
  /\ heap = <<>>
  /\ oids = 1
  /\ chain = <<>>
  /\ depth = 0
  /\ tasks = <<>>
  /\ threads = <<>>
  /\ born = <<>>

\* A route handler throws error.
HandlerThrows(error) ==
  /\ mode = "http"
  /\ last.op = "request"
  /\ last' = [last EXCEPT !.op = "thrown", !.error = error]
  /\ UNCHANGED <<heap, oids, chain, depth, mode, tasks, threads, born>>

\* The framework hands the thrown error to the interceptor.
OnError ==
  /\ mode = "http"
  /\ last.op = "thrown"
  /\ last' = [last EXCEPT !.op = "onError",
                          !.status = errorInterceptor(last.error).status,
                          !.body = errorInterceptor(last.error).body,
                          !.handled = TRUE]
  /\ UNCHANGED <<heap, oids, chain, depth, mode, tasks, threads, born>>

\* The response is sent; the next request starts.
NextRequest ==
  /\ mode = "http"
  /\ last.op = "onError"
  /\ last' = NoRequest
  /\ UNCHANGED <<heap, oids, chain, depth, mode, tasks, threads, born>>

HttpNext ==
  \/ \E error \in ThrownErrors : HandlerThrows(error)
  \/ OnError
  \/ NextRequest

HttpSpec == HttpInit /\ [][HttpNext]_vars

(* ------------------------------------------------------------------ *)
(* Claims                                                              *)
(* ------------------------------------------------------------------ *)

Refs == DOMAIN heap

Recv == heap[last.recv]

RecvIsOk == Recv.cls = "Ok"

Booleans == {True, False}

\* JavaScript's !b on a boolean.
Not(b) == JSBool(b = False)

\* The number of invocations of fn in a call log.
Count(calls, fn) == Cardinality({i \in DOMAIN calls : calls[i].fn = fn})

\* C1: every Result object (built by ok/err or returned by a combinator or a
\* callback) is exactly one variant: isOk and isErr return booleans, isErr is the
\* negation of isOk, the success field equals isOk; isOk(ok(v)) and isErr(err(e))
\* are true for every payload, the falsy ones included; and the isOk / isErr calls
\* the program makes return just that.
C1_ExactlyOneVariant ==
  /\ \A r \in Refs :
       LET a == isOk(CtxNow, r).out
           b == isErr(CtxNow, r).out
       IN  /\ a.t = "val" /\ b.t = "val"
           /\ a.val \in Booleans /\ b.val \in Booleans
           /\ b.val = Not(a.val)
           /\ heap[r].success = a.val
           /\ heap[r].cls \in {"Ok", "Err"}
           /\ a.val = JSBool(heap[r].cls = "Ok")
  /\ last.op = "ok" => isOk(CtxNow, last.out.ref).out.val = True
  /\ last.op = "err" => isErr(CtxNow, last.out.ref).out.val = True
  /\ last.op = "isOk" => last.out = RetVal(JSBool(RecvIsOk))
  /\ last.op = "isErr" => last.out = RetVal(JSBool(~RecvIsOk))

\* err(x).mapErr(_ => null).isErr() has returned true.
C1_Witness ==
  /\ last.op = "isErr"
  /\ last.recv = 2
  /\ Recv.cls = "Err"
  /\ Recv.error = Null
  /\ last.out.val = True

\* C2: ok(v) stores exactly v and ok(v).unwrap() returns it; err(e) stores exactly
\* e and err(e).unwrapErr() returns it (the same value, the same Error object).
C2_PayloadRecovery ==
  /\ last.op = "ok" => heap[last.out.ref].cls = "Ok" /\ heap[last.out.ref].value = last.arg
  /\ last.op = "err" => heap[last.out.ref].cls = "Err" /\ heap[last.out.ref].error = last.arg
  /\ \A r \in Refs :
       /\ heap[r].cls = "Ok" => Result_unwrap(CtxNow, r).out = RetVal(heap[r].value)
       /\ heap[r].cls = "Err" => Result_unwrapErr(CtxNow, r).out = RetVal(heap[r].error)
  /\ last.op = "unwrap" /\ RecvIsOk => last.out = RetVal(Recv.value)
  /\ last.op = "unwrapErr" /\ ~RecvIsOk => last.out = RetVal(Recv.error)

\* ok(boom).unwrap() has returned the Error object boom itself.
C2_Witness ==
  /\ last.op = "unwrap"
  /\ last.recv = 1
  /\ RecvIsOk
  /\ last.out = RetVal(Boom)

\* C3: unwrap on a success never throws; unwrap on a failure always throws, and
\* what it throws is the contained error itself (an Error object or not);
\* unwrapErr on a success always throws an Error and returns nothing.
C3_Escalation ==
  /\ last.op = "unwrap" /\ RecvIsOk => last.out.t = "val"
  /\ last.op = "unwrap" /\ ~RecvIsOk => last.out = Thrown(Recv.error)
  /\ last.op = "unwrapErr" /\ RecvIsOk =>
       /\ last.out.t = "throw"
       /\ last.out.val.kind = "Error"

\* err("a").unwrap() has thrown the string "a".
C3_Witness ==
  /\ last.op = "unwrap"
  /\ ~RecvIsOk
  /\ Recv.error = Str("a")
  /\ last.out = Thrown(Str("a"))

\* The Result object a callback returns for v.
FnReturns(fn, v) ==
  LET r == ApplyResultFn(EmptyCtx, fn, v)
  IN  r.ctx.heap[r.out.ref]

\* C4: on a success andThen invokes op exactly once, with the contained value,
\* and returns the very Result op returned (no new wrapper); on a failure it
\* returns the receiver itself and op is not invoked.
C4_AndThenBind ==
  last.op = "andThen" =>
    IF RecvIsOk
    THEN /\ last.out.t = "ref"
         /\ last.calls # <<>>
         /\ last.calls[1] = [fn |-> last.fn, arg |-> Recv.value]
         /\ Count(last.calls, last.fn) = 1
         /\ heap[last.out.ref] = FnReturns(last.fn, Recv.value)
         /\ last.out.ref = Len(heap)
         /\ last.out.ref > last.base
         /\ last.fn.k = "result" => Len(last.calls) = 1 /\ Len(heap) = last.base + 1
    ELSE /\ last.out = RetRef(last.recv)
         /\ last.calls = <<>>
         /\ Len(heap) = last.base

\* ok(v).andThen(f) has invoked f once and returned the failure f returned.
C4_Witness ==
  /\ last.op = "andThen"
  /\ last.fn.k = "result"
  /\ RecvIsOk
  /\ Len(last.calls) = 1
  /\ heap[last.out.ref].cls = "Err"
  /\ last.out.ref # last.recv

\* The receiver of step i of the chain r.andThen(f1)...andThen(fn); r is heap[1].
ChainRecv(i) == IF i = 1 THEN 1 ELSE chain[i - 1].out.ref

\* C5: in a chain r.andThen(f1)...andThen(fn), step i receives what step i-1
\* returned; a step whose receiver is a success invokes its function once with the
\* contained value and returns what the function returned; once r or a step
\* returned a failure, no later step invokes its function and every later result,
\* the final one included, is that same failure object, unchanged; the steps that
\* invoked their function are an initial segment of the chain.
C5_ChainShortCircuit ==
  /\ chain # <<>> => last.op = "andThen" /\ last.out = chain[Len(chain)].out
  /\ \A i \in DOMAIN chain :
       LET s == chain[i]
       IN  /\ s.recv = ChainRecv(i)
           /\ s.out.t = "ref"
           /\ s.obj = heap[s.out.ref]
           /\ IF heap[s.recv].cls = "Err"
              THEN s.calls = <<>> /\ s.out.ref = s.recv
              ELSE /\ s.calls # <<>>
                   /\ s.calls[1] = [fn |-> s.fn, arg |-> heap[s.recv].value]
                   /\ Count(s.calls, s.fn) = 1
                   /\ s.obj = FnReturns(s.fn, heap[s.recv].value)
           /\ heap[1].cls = "Err" => s.calls = <<>> /\ s.out.ref = 1
           /\ \A j \in DOMAIN chain :
                j < i /\ chain[j].obj.cls = "Err" =>
                  /\ s.calls = <<>>
                  /\ s.out.ref = chain[j].out.ref
                  /\ heap[s.out.ref] = chain[j].obj
           /\ \A j \in DOMAIN chain :
                j < i /\ s.calls # <<>> => chain[j].calls # <<>> /\ chain[j].obj.cls = "Ok"

\* A chain of three steps whose second step failed: the third was skipped.
C5_Witness ==
  /\ Len(chain) = 3
  /\ heap[1].cls = "Ok"
  /\ chain[1].obj.cls = "Ok"
  /\ chain[2].calls # <<>>
  /\ chain[2].obj.cls = "Err"
  /\ chain[3].calls = <<>>
  /\ last.out.ref = chain[2].out.ref

\* r.andThen(v => f(v).andThen(g)) evaluated on the chain's own receiver r.
Regrouped(f, g) ==
  Result_andThen([EmptyCtx EXCEPT !.heap = <<heap[1]>>], 1, Fn("compose", f.f, g.f))

\* C6: r.andThen(f).andThen(g) and r.andThen(v => f(v).andThen(g)) return a
\* Result of the same variant with the same payload, and invoke f and g the same
\* number of times.
C6_Associative ==
  (Len(chain) = 2 /\ chain[1].fn.k = "result" /\ chain[2].fn.k = "result") =>
    LET f == chain[1].fn
        g == chain[2].fn
        rhs == Regrouped(f, g)
        lhsCalls == chain[1].calls \o chain[2].calls
    IN  /\ rhs.out.t = "ref"
        /\ rhs.ctx.heap[rhs.out.ref] = heap[chain[2].out.ref]
        /\ Count(lhsCalls, f) = Count(rhs.ctx.calls, f)
        /\ Count(lhsCalls, g) = Count(rhs.ctx.calls, g)

\* ok(v).andThen(f).andThen(g) with both f and g invoked and g failing.
C6_Witness ==
  /\ Len(chain) = 2
  /\ chain[1].fn.k = "result"
  /\ chain[1].fn # chain[2].fn
  /\ chain[1].calls # <<>>
  /\ chain[2].calls # <<>>
  /\ chain[2].obj.cls = "Err"
  /\ Count(Regrouped(chain[1].fn, chain[2].fn).ctx.calls, chain[2].fn) = 1

\* C7: on a success map invokes fn exactly once with the contained value and
\* returns a new success wrapping what fn returned; on a failure it returns the
\* receiver itself (same error) and fn is not invoked.
C7_MapOnlySuccess ==
  last.op = "map" =>
    IF RecvIsOk
    THEN /\ last.calls = <<[fn |-> last.fn, arg |-> Recv.value]>>
         /\ last.out = RetRef(last.base + 1)
         /\ Len(heap) = last.base + 1
         /\ heap[last.out.ref] = OkObj(ValueFnResult(last.fn.f, Recv.value))
    ELSE /\ last.calls = <<>>
         /\ last.out = RetRef(last.recv)
         /\ Len(heap) = last.base

\* ok(1).map(v => typeof v) has returned a new success wrapping "number".
C7_Witness ==
  /\ last.op = "map"
  /\ RecvIsOk
  /\ Recv.value = Num(1)
  /\ last.out.ref # last.recv
  /\ heap[last.out.ref] = OkObj(Str("number"))

\* C8: on a failure mapErr invokes fn exactly once with the contained error and
\* returns a new failure wrapping what fn returned; on a success it returns the
\* receiver itself (same value) and fn is not invoked.
C8_MapErrDual ==
  last.op = "mapErr" =>
    IF RecvIsOk
    THEN /\ last.calls = <<>>
         /\ last.out = RetRef(last.recv)
         /\ Len(heap) = last.base
    ELSE /\ last.calls = <<[fn |-> last.fn, arg |-> Recv.error]>>
         /\ last.out = RetRef(last.base + 1)
         /\ Len(heap) = last.base + 1
         /\ heap[last.out.ref] = ErrObj(ValueFnResult(last.fn.f, Recv.error))

\* err(boom).mapErr(e => typeof e) has returned a new failure wrapping "object".
C8_Witness ==
  /\ last.op = "mapErr"
  /\ ~RecvIsOk
  /\ Recv.error = Boom
  /\ last.out.ref # last.recv
  /\ heap[last.out.ref] = ErrObj(Str("object"))

\* The indices of the failures of the array handed to the last aggregate call.
Failures == {i \in DOMAIN last.arr : heap[last.arr[i]].cls = "Err"}

FirstFailure == CHOOSE i \in Failures : \A j \in Failures : i <= j

\* The contained values of the successes of the array, in array order, and the
\* contained errors of its failures, in array order.
OkValuesOf(arr) ==
  LET oks == SelectSeq(arr, LAMBDA r : heap[r].cls = "Ok")
  IN  [i \in DOMAIN oks |-> heap[oks[i]].value]

ErrValuesOf(arr) ==
  LET errs == SelectSeq(arr, LAMBDA r : heap[r].cls = "Err")
  IN  [i \in DOMAIN errs |-> heap[errs[i]].error]

\* C9: combine of an array of successes returns a new success wrapping the array
\* of the contained values in input order (same length); otherwise it returns the
\* failure object at the smallest failing index itself, and no entry after that
\* index is inspected.
C9_CombineAllOrFirstError ==
  last.op = "combine" =>
    /\ last.out.t = "ref"
    /\ IF Failures = {}
       THEN /\ last.out.ref = Len(last.arr) + 1
            /\ Len(heap) = Len(last.arr) + 1
            /\ heap[last.out.ref].cls = "Ok"
            /\ heap[last.out.ref].value.kind = "array"
            /\ heap[last.out.ref].value.items = [i \in DOMAIN last.arr |-> heap[last.arr[i]].value]
            /\ Len(heap[last.out.ref].value.items) = Len(last.arr)
            /\ last.seen = last.arr
       ELSE /\ last.out.ref = last.arr[FirstFailure]
            /\ heap[last.out.ref].cls = "Err"
            /\ Len(heap) = Len(last.arr)
            /\ last.seen = SubSeq(last.arr, 1, FirstFailure)

\* combine([ok(1), err("a"), err(boom)]) has returned the failure err("a").
C9_Witness ==
  /\ last.op = "combine"
  /\ Len(last.arr) = 3
  /\ heap[1] = OkObj(Num(1))
  /\ heap[2] = ErrObj(Str("a"))
  /\ heap[3] = ErrObj(Boom)
  /\ last.out = RetRef(2)

C11_TryNeverRaises ==
  last.op = "try" =>
    /\ last.out.t = "ref"
    /\ last.fn.f = "returns" => heap[last.out.ref] = OkObj(last.arg)
    /\ last.fn.f = "throws" => heap[last.out.ref].cls = "Err"
    /\ last.fn.f = "throws" /\ InstanceOfError(last.arg) =>
         heap[last.out.ref].error.s = last.arg.s

\* The failure payload the wrappers are said to make of a thrown value x: x
\* itself when it is an Error, else an Error whose message is the string form of x.
IsNormalized(e, x) ==
  IF InstanceOfError(x)
  THEN e = x
  ELSE e.kind = "Error" /\ ~JSString(x).throws /\ e.s = JSString(x).s

\* C12: R.try and R.tryAsync normalize a thrown value alike: an Error becomes
\* the failure's payload itself, any other value x a new Error whose message is
\* the string form of x; and for the same thrown value, thrown synchronously,
\* before the first suspension or after one, R.tryAsync resolves to a failure
\* equal to the one R.try returns.
C12_SameNormalization ==
  /\ last.op = "try" /\ last.fn.f = "throws" =>
       /\ last.out.t = "ref"
       /\ heap[last.out.ref].cls = "Err"
       /\ IsNormalized(heap[last.out.ref].error, last.arg)
  /\ \A i \in DOMAIN tasks :
       tasks[i].fn.throws /\ tasks[i].promise # "pending" =>
         LET sync == R_try(EmptyCtx, [throws |-> TRUE, v |-> tasks[i].fn.v])
         IN  /\ tasks[i].promise = "resolved"
             /\ heap[tasks[i].ref].cls = "Err"
             /\ IsNormalized(heap[tasks[i].ref].error, tasks[i].fn.v)
             /\ sync.out.t = "ref"
             /\ sync.ctx.heap[sync.out.ref].cls = "Err"
             /\ sync.ctx.heap[sync.out.ref].error.kind = heap[tasks[i].ref].error.kind
             /\ sync.ctx.heap[sync.out.ref].error.s = heap[tasks[i].ref].error.s

\* C13: the promise R.tryAsync returns is pending or resolved to a Result, never
\* rejected; once settled it is a success wrapping v when the wrapped operation
\* resolved with v, and a failure when it threw or rejected.
C13_NeverRejected ==
  \A i \in DOMAIN tasks :
    /\ tasks[i].promise \in {"pending", "resolved"}
    /\ tasks[i].promise = "resolved" =>
         IF tasks[i].fn.throws
         THEN heap[tasks[i].ref].cls = "Err"
         ELSE heap[tasks[i].ref] = OkObj(tasks[i].fn.v)

\* The operations that signal no error of their own.
QuietOps ==
  {"isOk", "isErr", "unwrapOr", "unwrapOrElse", "map", "mapErr", "and", "andThen",
   "or", "orElse", "ok()", "err()", "combine", "partition", "fromNullable",
   "fromPredicate"}

\* C14: isOk, isErr, unwrapOr, unwrapOrElse, map, mapErr, and, andThen, or, orElse,
\* ok(), err(), combine, partition, fromNullable and fromPredicate never throw,
\* whatever the receiver's variant and the arguments; unwrap throws only on a
\* failure, unwrapErr only on a success, expect only on a failure.
C14_NoOwnRaise ==
  /\ last.op \in QuietOps => last.out.t # "throw"
  /\ last.op \in {"unwrap", "expect"} /\ last.out.t = "throw" => ~RecvIsOk
  /\ last.op = "unwrapErr" /\ last.out.t = "throw" => RecvIsOk

\* err(e).and(x) has returned the receiver, for an e that has no string form.
C14_Witness ==
  /\ last.op = "and"
  /\ ~RecvIsOk
  /\ Recv.error = Unprintable
  /\ last.out = RetRef(last.recv)

Supplied(fn) == ApplySupplier(EmptyCtx, fn).out.val

\* C16: ok(v).unwrapOr(d) and ok(v).unwrapOrElse(fn) return v, the falsy values
\* included, and fn is not invoked; err(e).unwrapOr(d) returns d and
\* err(e).unwrapOrElse(fn) returns fn(), fn being invoked exactly once, with no
\* argument; none of the four throws.
C16_UnwrapOrNeverFails ==
  /\ last.op \in {"unwrapOr", "unwrapOrElse"} => last.out.t = "val"
  /\ last.op = "unwrapOr" /\ RecvIsOk => last.out.val = Recv.value /\ last.calls = <<>>
  /\ last.op = "unwrapOr" /\ ~RecvIsOk => last.out.val = last.arg /\ last.calls = <<>>
  /\ last.op = "unwrapOrElse" /\ RecvIsOk =>
       last.out.val = Recv.value /\ Count(last.calls, last.fn) = 0
  /\ last.op = "unwrapOrElse" /\ ~RecvIsOk =>
       /\ last.out.val = Supplied(last.fn)
       /\ last.calls = <<[fn |-> last.fn, arg |-> Undefined]>>
  /\ \A r \in Refs :
       /\ \A d \in Defaults :
            Result_unwrapOr(CtxNow, r, d).out =
              RetVal(IF heap[r].cls = "Ok" THEN heap[r].value ELSE d)
       /\ \A fn \in SupplierFns :
            LET res == Result_unwrapOrElse(CtxNow, r, fn)
            IN  /\ res.out = RetVal(IF heap[r].cls = "Ok" THEN heap[r].value
                                    ELSE Supplied(fn))
                /\ Count(res.ctx.calls, fn) = IF heap[r].cls = "Ok" THEN 0 ELSE 1

\* err(e).unwrapOrElse(() => 1) has returned 1 after one invocation of the closure.
C16_Witness ==
  /\ last.op = "unwrapOrElse"
  /\ ~RecvIsOk
  /\ last.out = RetVal(Num(1))
  /\ Len(last.calls) = 1

\* C17: ok(v).expect(message) returns v and throws nothing; err(e).expect(message)
\* always throws an Error whose text is the message followed by ": " and the
\* string form of e.
C17_ExpectAnnotates ==
  /\ last.op = "expect" /\ RecvIsOk => last.out = RetVal(Recv.value)
  /\ last.op = "expect" /\ ~RecvIsOk =>
       /\ last.out.t = "throw"
       /\ InstanceOfError(last.out.val)
       /\ ~JSString(Recv.error).throws
       /\ last.out.val.s = last.arg.s \o ": " \o JSString(Recv.error).s

\* The Result x handed to the last and / or call.
Other == last.arr[1]

\* C18: r.and(x) returns x itself when r is a success and r itself when r is a
\* failure; r.or(x) returns x itself when r is a failure and r itself when r is a
\* success; which one is returned depends on r's variant alone, whatever x's
\* variant and payload; x and r are returned as they are, nothing is invoked and
\* no Result is built.
C18_AndOrSelectByReceiver ==
  /\ last.op = "and" => last.out = RetRef(IF RecvIsOk THEN Other ELSE last.recv)
  /\ last.op = "or" => last.out = RetRef(IF RecvIsOk THEN last.recv ELSE Other)
  /\ last.op \in {"and", "or"} =>
       /\ Other # last.recv
       /\ heap = last.pre
       /\ last.calls = <<>>
  /\ \A r \in Refs, x \in Refs :
       /\ Result_and(CtxNow, r, x) =
            Reply(CtxNow, RetRef(IF heap[r].cls = "Ok" THEN x ELSE r))
       /\ Result_or(CtxNow, r, x) =
            Reply(CtxNow, RetRef(IF heap[r].cls = "Ok" THEN r ELSE x))

\* ok(v).and(err(boom)) has returned the operand err(boom).
C18_Witness ==
  /\ last.op = "and"
  /\ RecvIsOk
  /\ heap[Other] = ErrObj(Boom)
  /\ last.out = RetRef(Other)

\* C19: on a failure orElse invokes fn exactly once, with the contained error,
\* and returns the very Result fn returned, success or failure, without wrapping
\* it; on a success it returns the receiver itself and fn is not invoked.
C19_OrElseRecovers ==
  last.op = "orElse" =>
    IF RecvIsOk
    THEN /\ last.out = RetRef(last.recv)
         /\ last.calls = <<>>
         /\ heap = last.pre
    ELSE /\ last.out.t = "ref"
         /\ last.calls = <<[fn |-> last.fn, arg |-> Recv.error]>>
         /\ heap[last.out.ref] = FnReturns(last.fn, Recv.error)
         /\ last.out.ref = Len(last.pre) + 1
         /\ Len(heap) = Len(last.pre) + 1

\* err(e).orElse(f) has invoked f once and returned the success f returned.
C19_Witness ==
  /\ last.op = "orElse"
  /\ ~RecvIsOk
  /\ Len(last.calls) = 1
  /\ heap[last.out.ref].cls = "Ok"
  /\ last.out.ref # last.recv

\* The combinators: the methods that return a Result.
Combinators == {"map", "mapErr", "and", "andThen", "or", "orElse"}

\* The Result handed to the last combinator call, directly (and, or) or as what
\* the callback returns for the receiver's payload (andThen, orElse).
SuppliedIsOk ==
  IF last.op \in {"and", "or"}
  THEN heap[Other].cls = "Ok"
  ELSE FnReturns(last.fn, IF RecvIsOk THEN Recv.value ELSE Recv.error).cls = "Ok"

\* C20: a combinator changes the variant only where it is asked to: map and
\* mapErr return the receiver's variant; a failure gives a success only through
\* or / orElse, and then the supplied Result is a success; a success gives a
\* failure only through and / andThen, and then the supplied Result is a failure;
\* and / andThen on a failure and or / orElse on a success return the receiver,
\* its variant and its payload.
C20_NoImplicitConversion ==
  last.op \in Combinators =>
    /\ last.out.t = "ref"
    /\ last.op \in {"map", "mapErr"} => heap[last.out.ref].cls = Recv.cls
    /\ ~RecvIsOk /\ heap[last.out.ref].cls = "Ok" =>
         last.op \in {"or", "orElse"} /\ SuppliedIsOk
    /\ RecvIsOk /\ heap[last.out.ref].cls = "Err" =>
         last.op \in {"and", "andThen"} /\ ~SuppliedIsOk
    /\ ~RecvIsOk /\ last.op \in {"and", "andThen"} =>
         last.out.ref = last.recv /\ heap[last.out.ref] = last.pre[last.recv]
    /\ RecvIsOk /\ last.op \in {"or", "orElse"} =>
         last.out.ref = last.recv /\ heap[last.out.ref] = last.pre[last.recv]

\* err(e).mapErr(_ => null) has returned a failure, and or(ok(1)) on that failure
\* has returned the success it was given.
C20_Witness ==
  /\ last.op = "or"
  /\ depth = 2
  /\ heap[1].cls = "Err"
  /\ heap[2] = ErrObj(Null)
  /\ last.recv = 2
  /\ heap[last.out.ref] = OkObj(Num(1))

\* The Result the last call returned.
Returned == heap[last.out.ref]

\* C21: fromNullable(x, msg) is a failure exactly when x is null or undefined;
\* otherwise it is a success holding x itself, 0, "" and false included; the
\* failure holds a new Error whose message is msg when msg is given (an empty
\* msg included) and "Value is null or undefined" when it is left out.
C21_FromNullable ==
  last.op = "fromNullable" =>
    /\ last.out.t = "ref"
    /\ Returned.cls = "Err" <=> last.arg \in {Null, Undefined}
    /\ Returned.cls = "Ok" => Returned = OkObj(last.arg)
    /\ Returned.cls = "Err" =>
         /\ InstanceOfError(Returned.error)
         /\ Returned.error.n > 1
         /\ Returned.error.s = IF last.arg2 = Undefined
                               THEN "Value is null or undefined"
                               ELSE last.arg2.s

\* fromNullable(0) has returned a success holding 0.
C21_Witness ==
  /\ last.op = "fromNullable"
  /\ last.arg = Num(0)
  /\ Returned = OkObj(Num(0))

\* p(x) is true.
Holds(p, x) == ApplyPredicate(EmptyCtx, p, x).out.val = True

\* The message function of fromPredicate, as a logged callback.
MessageFn == Fn("message", "describe", "")

\* C22: fromPredicate(x, p, msg) calls p once, with x; it is a success holding x
\* itself exactly when p(x) is true; otherwise it is a failure holding a new
\* Error whose message is msg when msg is a string, msg(x) when msg is a
\* function, and "Predicate failed" when msg is left out; the function msg is
\* invoked once when p(x) is false and not at all when p(x) is true.
C22_FromPredicate ==
  last.op = "fromPredicate" =>
    /\ last.out.t = "ref"
    /\ last.calls # <<>>
    /\ last.calls[1] = [fn |-> last.fn, arg |-> last.arg]
    /\ Count(last.calls, last.fn) = 1
    /\ Returned.cls = "Ok" <=> Holds(last.fn, last.arg)
    /\ Returned.cls = "Ok" =>
         /\ Returned = OkObj(last.arg)
         /\ Count(last.calls, MessageFn) = 0
    /\ Returned.cls = "Err" =>
         /\ InstanceOfError(Returned.error)
         /\ Returned.error.n > 1
         /\ Returned.error.s =
              CASE last.arg2 = Undefined -> "Predicate failed"
                [] last.arg2 = Describe -> ApplyDescribe(EmptyCtx, last.arg).out.val.s
                [] OTHER -> last.arg2.s
         /\ Count(last.calls, MessageFn) = IF last.arg2 = Describe THEN 1 ELSE 0
         /\ last.arg2 = Describe => last.calls[2] = [fn |-> MessageFn, arg |-> last.arg]

\* fromPredicate(0, isString, describe) has returned a failure whose message
\* describes the value.
C22_Witness ==
  /\ last.op = "fromPredicate"
  /\ last.arg = Num(0)
  /\ last.arg2 = Describe
  /\ Returned.cls = "Err"
  /\ Returned.error.s = "bad number"

\* C23: ok(v).ok() returns v and ok(v).err() returns null; err(e).err() returns e
\* and err(e).ok() returns null; v and e are returned as they are (the same
\* Error object, undefined as undefined).
C23_NullableConversion ==
  /\ last.op = "ok()" => last.out = RetVal(IF RecvIsOk THEN Recv.value ELSE Null)
  /\ last.op = "err()" => last.out = RetVal(IF RecvIsOk THEN Null ELSE Recv.error)
  /\ last.op \in {"ok()", "err()"} => last.calls = <<>> /\ heap = last.pre
  /\ \A r \in Refs :
       /\ Result_ok(CtxNow, r).out =
            RetVal(IF heap[r].cls = "Ok" THEN heap[r].value ELSE Null)
       /\ Result_err(CtxNow, r).out =
            RetVal(IF heap[r].cls = "Ok" THEN Null ELSE heap[r].error)

\* err(boom).ok() has returned null.
C23_Witness ==
  /\ last.op = "ok()"
  /\ Recv = ErrObj(Boom)
  /\ last.out = RetVal(Null)

\* The call thread t made, run alone on the Results as they were constructed.
Alone(t) ==
  Perform([heap |-> SubSeq(born, 1, threads[t].base), oids |-> threads[t].ids,
           calls |-> <<>>, seen |-> <<>>],
          threads[t].call)

\* C24: however the threads' calls interleave on the shared Results, no Result's
\* variant or payload changes, and what each call returned is what the same
\* call returns when it is run alone on the Results as they were constructed:
\* the same value or thrown value, or a reference to an equal Result.
C24_SharedUseIsSafe ==
  /\ heap = born
  /\ \A t \in DOMAIN threads :
       threads[t].call.op # "none" =>
         /\ Alone(t).out = threads[t].out
         /\ threads[t].out.t = "ref" =>
              Alone(t).ctx.heap[threads[t].out.ref] = heap[threads[t].out.ref]

\* Thread a has transformed the shared Result 1 with map, thread b has then
\* unwrapped the same Result and got its original value, and thread c has then
\* combined what a's call returned with the shared Result 1.
C24_Witness ==
  /\ mode = "shared"
  /\ threads["a"].call = [op |-> "map", recv |-> 1, x |-> 1]
  /\ threads["a"].out = RetRef(3)
  /\ threads["b"].call = [op |-> "unwrap", recv |-> 1, x |-> 1]
  /\ threads["b"].base = 3
  /\ threads["b"].out = RetVal(Num(1))
  /\ threads["c"].call = [op |-> "combine", recv |-> 3, x |-> 1]
  /\ threads["c"].out = RetRef(4)
  /\ heap[4].value.items = <<Str("number"), Num(1)>>

\* The wrapped operation of call i has settled: it threw before returning a
\* promise, or its promise is fulfilled or rejected.
WrappedSettled(i) ==
  tasks[i].fn.when = "sync" \/ tasks[i].inner \in {"fulfilled", "rejected"}

InputCtx == [heap |-> last.pre, oids |-> 1, calls |-> <<>>, seen |-> <<>>]

\* combine's outcome c (in heap h) and partition's outcome p agree.
Agree(h, c, p) ==
  /\ c.t = "ref" /\ p.t = "pair"
  /\ h[c.ref].cls = "Ok" <=> p.val2.items = <<>>
  /\ h[c.ref].cls = "Ok" => h[c.ref].value.items = p.val.items
  /\ h[c.ref].cls = "Err" => h[c.ref].error = p.val2.items[1]

\* C27: on the same sequence rs, combine(rs) is a success exactly when
\* partition(rs).err is empty, and then its value is partition(rs).ok; otherwise
\* its error is partition(rs).err[0]; on the empty sequence combine returns a
\* success holding an empty array and partition two empty arrays.
C27_CombinePartitionAgree ==
  /\ last.op = "combine" =>
       /\ Agree(heap, last.out, R_partition(InputCtx, last.arr).out)
       /\ last.arr = <<>> =>
            Returned.cls = "Ok" /\ Returned.value.kind = "array"
              /\ Returned.value.items = <<>>
  /\ last.op = "partition" =>
       /\ Agree(R_combine(InputCtx, last.arr).ctx.heap,
                R_combine(InputCtx, last.arr).out, last.out)
       /\ last.arr = <<>> =>
            /\ last.out.val.kind = "array" /\ last.out.val.items = <<>>
            /\ last.out.val2.kind = "array" /\ last.out.val2.items = <<>>

\* combine([ok(1), err("a"), err(boom)]) has returned the failure "a", the first
\* of the two errors partition collects.
C27_Witness ==
  /\ last.op = "combine"
  /\ Len(last.arr) = 3
  /\ heap[1] = OkObj(Num(1))
  /\ heap[2] = ErrObj(Str("a"))
  /\ heap[3] = ErrObj(Boom)
  /\ last.out = RetRef(2)
  /\ R_partition(InputCtx, last.arr).out.val2.items = <<Str("a"), Boom>>

\* v is neither null nor undefined.
NonNull(v) == v \notin {Null, Undefined}

\* C28: for every Result r at most one of r.ok() and r.err() is non-null; a
\* non-null r.ok() means r is a success and a non-null r.err() means r is a
\* failure; a success gives a null ok() and a failure a null err() only when
\* the payload itself is null or undefined, so for a Result whose success
\* payload is non-null, ok() is null exactly when it is a failure.
C28_NeverBothSides ==
  /\ \A r \in Refs :
       LET a == Result_ok(CtxNow, r).out.val
           b == Result_err(CtxNow, r).out.val
       IN  /\ ~(NonNull(a) /\ NonNull(b))
           /\ NonNull(a) => heap[r].cls = "Ok"
           /\ NonNull(b) => heap[r].cls = "Err"
           /\ heap[r].cls = "Ok" /\ ~NonNull(a) => ~NonNull(heap[r].value)
           /\ heap[r].cls = "Err" /\ ~NonNull(b) => ~NonNull(heap[r].error)
           /\ heap[r].cls = "Ok" /\ NonNull(heap[r].value) => NonNull(a)
           /\ heap[r].cls = "Err" /\ NonNull(heap[r].error) => NonNull(b)
  /\ last.op = "ok()" /\ NonNull(last.out.val) => RecvIsOk
  /\ last.op = "err()" /\ NonNull(last.out.val) => ~RecvIsOk
  /\ last.op = "ok()" /\ RecvIsOk /\ Recv.value = Null => last.out = RetVal(Null)
  /\ last.op = "err()" /\ ~RecvIsOk /\ Recv.error = Null => last.out = RetVal(Null)

\* ok(null).ok() has returned null although the Result is a success.
C28_Witness ==
  /\ last.op = "ok()"
  /\ Recv = OkObj(Null)
  /\ last.out = RetVal(Null)

\* C29: R.try(() => r.unwrap()) returns a Result of r's variant: for a success
\* it holds the same value; for a failure whose error is an Error object it
\* holds that very object; for a failure whose error e is not an Error object it
\* holds a new Error whose message is the string form of e.
C29_RoundTrip ==
  last.op = "tryUnwrap" =>
    /\ last.out.t = "ref"
    /\ Returned.cls = Recv.cls
    /\ RecvIsOk => Returned.value = Recv.value
    /\ ~RecvIsOk /\ InstanceOfError(Recv.error) => Returned.error = Recv.error
    /\ ~RecvIsOk /\ ~InstanceOfError(Recv.error) =>
         /\ InstanceOfError(Returned.error)
         /\ Returned.error.n > 1
         /\ ~JSString(Recv.error).throws
         /\ Returned.error.s = JSString(Recv.error).s

\* The status the claim's branch order gives error: the first test that holds,
\* in the order ValidationError, NotFoundError, UnauthorizedError,
\* ForbiddenError, ConflictError, Elysia validation, database, network, default.
BranchStatus(error) ==
  CASE error.class = "ValidationError" -> "UNPROCESSABLE_ENTITY"
    [] error.class = "NotFoundError" -> "NOT_FOUND"
    [] error.class = "UnauthorizedError" -> "UNAUTHORIZED"
    [] error.class = "ForbiddenError" -> "FORBIDDEN"
    [] error.class = "ConflictError" -> "CONFLICT"
    [] error.class = "Error" /\ Includes(error.message, "Validation error") -> "BAD_REQUEST"
    [] error.class = "Error" /\ ~Includes(error.message, "Validation error")
         /\ (Includes(error.message, "database") \/ Includes(error.message, "SQL")) ->
         "INTERNAL_SERVER_ERROR"
    [] error.class = "Error" /\ ~Includes(error.message, "Validation error")
         /\ ~Includes(error.message, "database") /\ ~Includes(error.message, "SQL")
         /\ (Includes(error.message, "network") \/ Includes(error.message, "fetch")) ->
         "BAD_GATEWAY"
    [] OTHER -> "INTERNAL_SERVER_ERROR"

\* C30: for every error the interceptor handles, the status it sets on the
\* response is the statusCode of the object it returns, and both are those of
\* the first branch that matches, the branches taken in their fixed order.
C30_StatusMatchesBody ==
  last.op = "onError" =>
    /\ last.status = BranchStatus(last.error)
    /\ last.body.statusCode = last.status


====
